---- MODULE Spec2Model ----
(***************************************************************************)
(* Model of crates/pathfinder/src/sequencer/metrics.rs: the registration   *)
(* of the sequencer counters (register) and the decorator that counts the  *)
(* outcome of one sequencer request (with_metrics).                        *)
(*                                                                         *)
(* One step of the model is one metrics macro call (register_counter! or   *)
(* increment_counter!) together with the control flow that leads to the    *)
(* next one, so that concurrent calls interleave between any two counter   *)
(* operations.  The metrics recorder is the `metrics` facade: a series is  *)
(* looked up or created by its key, and an increment adds one atomically.  *)
(***************************************************************************)
EXTENDS Integers, Sequences, FiniteSets, Bags, TLC

\* ------------------------------------------------------------------ bounds

\* Number of with_metrics calls that may be in flight together.
MaxCalls == 2

\* Number of with_metrics calls issued while register() is being repeated.
MaxRegCalls == 1

\* The first register() call and the repeated one.
Registrars == {1, 2}

\* ------------------------------------------------------- label taxonomy

\* A label that a counter key does not carry (Option::None of as_str, or a
\* macro call without that label).
Absent == "absent"

METRIC_REQUESTS == "sequencer_requests_total"

METRIC_FAILED_REQUESTS == "sequencer_requests_failed_total"

METRICS == <<METRIC_REQUESTS, METRIC_FAILED_REQUESTS>>

\* Request::<'_, Method>::METHODS of sequencer/builder.rs: the closed catalog
\* of method names.  Three of its entries: the two methods that take a block
\* id and one that does not.
METHODS == <<"call_contract", "get_block", "get_state_update">>

methods_with_tags == <<"get_block", "get_state_update">>

tags == <<"latest", "pending">>

failure_reason == <<"starknet", "decode", "rate_limiting">>

\* enum BlockTag
BlockTags == {"None", "Latest", "Pending"}

\* as_str with the label of Latest given to Pending as well.
as_str_swapped(tag) ==
  CASE tag = "None" -> Absent
    [] tag = "Latest" -> "latest"
    [] tag = "Pending" -> "latest"

\* BlockTag::as_str
as_str(tag) ==
  CASE tag = "None" -> Absent
    [] tag = "Latest" -> "latest"
    [] tag = "Pending" -> "pending"

Range(s) == {s[i] : i \in 1..Len(s)}

\* RequestMetadata { method, tag }
Metas == [method : Range(METHODS), tag : BlockTags]

\* A counter key: series name and the labels method, tag, reason.
Key(name, method, tag, reason) == <<name, method, tag, reason>>

\* ---------------------------------------------------------------- errors

\* reqwest::StatusCode::TOO_MANY_REQUESTS
TOO_MANY_REQUESTS == 429

\* SequencerError: StarknetError(_) or ReqwestError(e), e of one reqwest kind
\* (a decode error, a status error, or a request error such as a timeout);
\* only a status error carries a status code (Error::status() is Some).
Errors ==
  { [variant |-> "StarknetError", kind |-> Absent, status |-> Absent],
    [variant |-> "ReqwestError", kind |-> "Decode", status |-> Absent],
    [variant |-> "ReqwestError", kind |-> "Status", status |-> TOO_MANY_REQUESTS],
    [variant |-> "ReqwestError", kind |-> "Status", status |-> 500],
    [variant |-> "ReqwestError", kind |-> "Request", status |-> Absent] }

\* Values a successful request may carry.
Values == {"v1", "v2"}

Ok(v) == [ok |-> TRUE, val |-> v]

Err(e) == [ok |-> FALSE, err |-> e]

NoResult == [ok |-> FALSE, err |-> Absent]

is_decode(e) == e.kind = "Decode"

is_status(e) == e.kind = "Status"

\* -------------------------------------------------------------- register

RECURSIVE Concat(_)
Concat(ss) == IF ss = <<>> THEN <<>> ELSE Head(ss) \o Concat(Tail(ss))

\* methods_with_tags x tags, in the order of the nested for_each loops.
TagPairs ==
  [i \in 1..(Len(methods_with_tags) * Len(tags)) |->
     [method |-> methods_with_tags[((i - 1) \div Len(tags)) + 1],
      tag |-> tags[((i - 1) % Len(tags)) + 1]]]

\* The first loop of register(): for one series name, a counter for each
\* method of the catalog, then one for each (method, tag) pair.
RegisterNameKeys(name) ==
  [i \in 1..Len(METHODS) |-> Key(name, METHODS[i], Absent, Absent)]
  \o [i \in 1..Len(TagPairs) |->
        Key(name, TagPairs[i].method, TagPairs[i].tag, Absent)]

\* The second loop without its block tag part.
RegisterReasonKeysNoTags(reason) ==
  [i \in 1..Len(METHODS) |->
     Key(METRIC_FAILED_REQUESTS, METHODS[i], Absent, reason)]

\* The second loop of register(): for one failure reason, a failed counter
\* for each method of the catalog, then one for each (method, tag) pair.
RegisterReasonKeys(reason) ==
  [i \in 1..Len(METHODS) |->
     Key(METRIC_FAILED_REQUESTS, METHODS[i], Absent, reason)]
  \o [i \in 1..Len(TagPairs) |->
        Key(METRIC_FAILED_REQUESTS, TagPairs[i].method, TagPairs[i].tag, reason)]

\* register(): the keys of its register_counter! calls, in program order.
RegisterCalls ==
  Concat([n \in 1..Len(METRICS) |-> RegisterNameKeys(METRICS[n])])
  \o Concat([r \in 1..Len(failure_reason) |-> RegisterReasonKeys(failure_reason[r])])

\* A registration that creates the series anew, at zero, every time.
register_counter_reset(cnt, k) ==
  IF k \in DOMAIN cnt THEN [cnt EXCEPT ![k] = 0] ELSE cnt @@ (k :> 0)

\* metrics::register_counter!: the recorder looks the series up by its key
\* and creates it, at zero, when it does not exist yet.
register_counter(cnt, k) ==
  IF k \in DOMAIN cnt THEN cnt ELSE cnt @@ (k :> 0)

\* An increment that sets the series to one instead of adding one to it:
\* the increments of the other calls are lost.
increment_counter_absolute(cnt, k) ==
  IF k \in DOMAIN cnt THEN [cnt EXCEPT ![k] = 1] ELSE cnt @@ (k :> 1)

\* metrics::increment_counter!: the series is looked up (or created) and
\* one is added to it atomically.
increment_counter(cnt, k) ==
  IF k \in DOMAIN cnt THEN [cnt EXCEPT ![k] = @ + 1] ELSE cnt @@ (k :> 1)

\* ---------------------------------------------------------- with_metrics

\* The pattern without its method part.
HasTagVariantAnyMethod(m) == as_str(m.tag) # Absent

\* The pattern with get_block alone.
HasTagVariantGetBlockOnly(m) ==
  /\ m.method \in {"get_block"}
  /\ as_str(m.tag) # Absent

\* The pattern of `if let ("get_block" | "get_state_update", Some(tag))`:
\* the call has block tag specific counters.
HasTagVariant(m) ==
  /\ m.method \in {"get_block", "get_state_update"}
  /\ as_str(m.tag) # Absent

\* increment with the failed counter's name written in for counter_name.
increment_fixed_name(counter_name, m) ==
  <<Key("sequencer_requests_failed_total", m.method, Absent, Absent)>>
  \o IF HasTagVariant(m)
       THEN <<Key("sequencer_requests_failed_total", m.method, as_str(m.tag), Absent)>>
       ELSE <<>>

\* fn increment(counter_name, meta): the keys it increments, in order.
increment(counter_name, m) ==
  <<Key(counter_name, m.method, Absent, Absent)>>
  \o IF HasTagVariant(m)
       THEN <<Key(counter_name, m.method, as_str(m.tag), Absent)>>
       ELSE <<>>

\* fn increment_failed(meta, failure_reason): the keys it increments, in order.
increment_failed(m, reason) ==
  <<Key("sequencer_requests_failed_total", m.method, Absent, reason)>>
  \o IF HasTagVariant(m)
       THEN <<Key("sequencer_requests_failed_total", m.method, as_str(m.tag), reason)>>
       ELSE <<>>

\* The match without the comparison of the status code.
FailureReasonAnyStatus(e) ==
  IF e.variant = "StarknetError" THEN "starknet"
  ELSE IF is_decode(e) THEN "decode"
  ELSE IF is_status(e) THEN "rate_limiting"
  ELSE Absent

\* The `match &e` of the map_err closure: the first arm that matches decides
\* the failure reason; the last arm counts no reason.
FailureReason(e) ==
  IF e.variant = "StarknetError" THEN "starknet"
  ELSE IF is_decode(e) THEN "decode"
  ELSE IF is_status(e) /\ e.status = TOO_MANY_REQUESTS THEN "rate_limiting"
  ELSE Absent

\* A closure that evaluates to a new error instead of the one it was given.
ClosureReturnNew(e) == [variant |-> "ReqwestError", kind |-> "Request", status |-> Absent]

\* The value the map_err closure evaluates to: the error it was given.
ClosureReturn(e) == e

\* Result::map_err with the closure: Ok passes, Err carries the closure's value.
map_err(out) == IF out.ok THEN out ELSE Err(ClosureReturn(out.err))

\* ------------------------------------------------------------------ state

VARIABLES
  rpos,        \* rpos[r]: index in RegisterCalls of register() call r's next macro
  registered,  \* the keys declared by register_counter!
  counters,    \* the recorder: key of each existing series |-> its value
  calls        \* the bag of with_metrics calls made so far, one record each:
               \*   pc       where the call stands
               \*   meta     its RequestMetadata
               \*   outcome  what the wrapped future f resolved to
               \*   result   what with_metrics returned
               \*   incs     the keys the call incremented, in order
               \*   opRuns   how many times f was awaited to completion

vars == <<rpos, registered, counters, calls>>

Init ==
  /\ rpos = [r \in Registrars |-> 1]
  /\ registered = {}
  /\ counters = <<>>
  /\ calls = EmptyBag

RegisterDone(r) == rpos[r] > Len(RegisterCalls)

\* One register_counter! call of register() call r.
Register(r) ==
  /\ ~RegisterDone(r)
  /\ registered' = registered \cup {RegisterCalls[rpos[r]]}
  /\ counters' = register_counter(counters, RegisterCalls[rpos[r]])
  /\ rpos' = [rpos EXCEPT ![r] = @ + 1]
  /\ UNCHANGED calls

\* Call k moves on to `next`, having made one increment_counter! call on `key`.
Bump(k, key, next) ==
  /\ counters' = increment_counter(counters, key)
  /\ calls' = (calls (-) SetToBag({k}))
               (+) SetToBag({[next EXCEPT !.incs = Append(@, key)]})
  /\ UNCHANGED <<rpos, registered>>

\* Where the closure goes after increment("sequencer_requests_failed_total").
AfterFailed(e) == IF FailureReason(e) # Absent THEN "reason" ELSE "done"

\* Call k at `next`: with_metrics returns once the closure is through.
Return(k, next) ==
  [k EXCEPT !.pc = next,
            !.result = IF next = "done" THEN map_err(k.outcome) ELSE @]

\* with_metrics(meta, f) is polled for the first time: it enters
\* increment("sequencer_requests_total", meta) and counts the method.
\* Traffic starts after a register() call has completed.
Start(m, limit) ==
  /\ BagCardinality(calls) < limit
  /\ \E r \in Registrars : RegisterDone(r)
  /\ counters' = increment_counter(counters, increment("sequencer_requests_total", m)[1])
  /\ calls' = calls (+) SetToBag({
         [pc |-> IF Len(increment("sequencer_requests_total", m)) > 1
                 THEN "total_tag" ELSE "await",
          meta |-> m,
          outcome |-> NoResult,
          result |-> NoResult,
          incs |-> <<increment("sequencer_requests_total", m)[1]>>,
          opRuns |-> 0]})
  /\ UNCHANGED <<rpos, registered>>

\* The block tag variant of the total counter; then f is awaited.
IncrementTotalTag(k) ==
  /\ k.pc = "total_tag"
  /\ Bump(k, increment("sequencer_requests_total", k.meta)[2], [k EXCEPT !.pc = "await"])

\* The future is dropped while it waits for f.
Cancel(k) ==
  /\ k.pc = "await"
  /\ calls' = (calls (-) SetToBag({k})) (+) SetToBag({[k EXCEPT !.pc = "cancelled"]})
  /\ UNCHANGED <<rpos, registered, counters>>

\* f resolves to Ok(v): map_err does not run its closure.
OpOk(k, v) ==
  /\ k.pc = "await"
  /\ calls' = (calls (-) SetToBag({k}))
               (+) SetToBag({Return([k EXCEPT !.outcome = Ok(v), !.opRuns = @ + 1], "done")})
  /\ UNCHANGED <<rpos, registered, counters>>

\* f resolves to Err(e): the closure enters
\* increment("sequencer_requests_failed_total", meta) and counts the method.
OpErr(k, e) ==
  /\ k.pc = "await"
  /\ Bump(k, increment("sequencer_requests_failed_total", k.meta)[1],
          Return([k EXCEPT !.outcome = Err(e), !.opRuns = @ + 1],
                 IF Len(increment("sequencer_requests_failed_total", k.meta)) > 1
                 THEN "failed_tag" ELSE AfterFailed(e)))

\* The block tag variant of the failed counter.
IncrementFailedTag(k) ==
  /\ k.pc = "failed_tag"
  /\ Bump(k, increment("sequencer_requests_failed_total", k.meta)[2],
          Return(k, AfterFailed(k.outcome.err)))

\* The matching arm calls increment_failed(meta, reason): the method's
\* counter of that reason.
IncrementReason(k) ==
  /\ k.pc = "reason"
  /\ Bump(k, increment_failed(k.meta, FailureReason(k.outcome.err))[1],
          Return(k, IF Len(increment_failed(k.meta, FailureReason(k.outcome.err))) > 1
                    THEN "reason_tag" ELSE "done"))

\* The block tag variant of the reason counter; the closure returns e.
IncrementReasonTag(k) ==
  /\ k.pc = "reason_tag"
  /\ Bump(k, increment_failed(k.meta, FailureReason(k.outcome.err))[2],
          Return(k, "done"))

\* register() once at start-up, then concurrent traffic.
Next ==
  \/ Register(1)
  \/ \E m \in Metas : Start(m, MaxCalls)
  \/ \E k \in BagToSet(calls) : IncrementTotalTag(k)
  \/ \E k \in BagToSet(calls) : Cancel(k)
  \/ \E k \in BagToSet(calls) : \E v \in Values : OpOk(k, v)
  \/ \E k \in BagToSet(calls) : \E e \in Errors : OpErr(k, e)
  \/ \E k \in BagToSet(calls) : IncrementFailedTag(k)
  \/ \E k \in BagToSet(calls) : IncrementReason(k)
  \/ \E k \in BagToSet(calls) : IncrementReasonTag(k)

Spec == Init /\ [][Next]_vars

\* register() called twice, the two calls interleaved with each other and
\* the repeated one with traffic.
NextReg ==
  \/ \E r \in Registrars : Register(r)
  \/ \E m \in Metas : Start(m, MaxRegCalls)
  \/ \E k \in BagToSet(calls) : IncrementTotalTag(k)
  \/ \E k \in BagToSet(calls) : Cancel(k)
  \/ \E k \in BagToSet(calls) : \E v \in Values : OpOk(k, v)
  \/ \E k \in BagToSet(calls) : \E e \in Errors : OpErr(k, e)
  \/ \E k \in BagToSet(calls) : IncrementFailedTag(k)
  \/ \E k \in BagToSet(calls) : IncrementReason(k)
  \/ \E k \in BagToSet(calls) : IncrementReasonTag(k)

SpecReg == Init /\ [][NextReg]_vars

\* ----------------------------------------------------------------- claims

\* The calls made so far.
Recs == BagToSet(calls)

\* The value of a counter; a series that does not exist has counted nothing.
Value(key) == IF key \in DOMAIN counters THEN counters[key] ELSE 0

\* How many times `key` occurs in the sequence of keys `seq`.
Count(key, seq) == Cardinality({i \in 1..Len(seq) : seq[i] = key})

Reasons == {"starknet", "decode", "rate_limiting"}

TagLabels == {"latest", "pending"}

TaggedMethods == {"get_block", "get_state_update"}

\* Every key of the label taxonomy.
AllKeys ==
  {Key(n, m, t, r) : n \in {METRIC_REQUESTS, METRIC_FAILED_REQUESTS},
                     m \in Range(METHODS),
                     t \in TagLabels \cup {Absent},
                     r \in Reasons \cup {Absent}}

\* The label a block tag is expected to show as.
ExpectedLabel(tag) ==
  IF tag = "Latest" THEN "latest" ELSE IF tag = "Pending" THEN "pending" ELSE Absent

\* The call is expected to count under block tag specific counters too.
ExpectedTagged(m) == m.method \in TaggedMethods /\ m.tag \in {"Latest", "Pending"}

\* The reason an error is expected to be counted under.
ExpectedReason(e) ==
  CASE e.variant = "StarknetError" -> "starknet"
    [] e.variant = "ReqwestError" /\ e.kind = "Decode" -> "decode"
    [] e.variant = "ReqwestError" /\ e.kind = "Status" /\ e.status = 429 -> "rate_limiting"
    [] OTHER -> Absent

Failed(k) == k.pc = "done" /\ ~k.outcome.ok

Succeeded(k) == k.pc = "done" /\ k.outcome.ok

\* C1: every counter key that a with_metrics call increments, and every
\* counter that has counted anything, is a key that register() registered.
C1_PreRegistered ==
  /\ \A k \in Recs : \A i \in 1..Len(k.incs) : k.incs[i] \in registered
  /\ \A key \in DOMAIN counters : counters[key] > 0 => key \in registered

\* A failed call with a block tag and a classified error has finished: it
\* incremented keys of every shape.
C1_Witness ==
  \E k \in Recs : Failed(k) /\ Len(k.incs) = 6 /\ k.meta.method = "get_block"

\* C2 as stated: a call whose wrapped operation was cancelled before it
\* produced a result has incremented no counter.
C2_CancelledCountsNothing ==
  \A k \in Recs : k.pc = "cancelled" => k.incs = <<>>

\* C2 as amended: a call cancelled while it awaits the wrapped operation has
\* incremented requests_total(method) once, requests_total(method, tag) once
\* when it has a block tag variant, and nothing else: no failed counter.
C2_CancelledCountsOnlyTotal ==
  \A k \in Recs : k.pc = "cancelled" =>
    /\ Count(Key(METRIC_REQUESTS, k.meta.method, Absent, Absent), k.incs) = 1
    /\ ExpectedTagged(k.meta) =>
         Count(Key(METRIC_REQUESTS, k.meta.method, ExpectedLabel(k.meta.tag), Absent),
               k.incs) = 1
    /\ Len(k.incs) = IF ExpectedTagged(k.meta) THEN 2 ELSE 1
    /\ \A i \in 1..Len(k.incs) : k.incs[i][1] = METRIC_REQUESTS
    /\ k.opRuns = 0

\* A call with a block tag variant was cancelled.
C2_Witness ==
  \E k \in Recs : k.pc = "cancelled" /\ Len(k.incs) = 2

\* Whether a completed call is expected to have counted under `key`.
Counts(k, key) ==
  /\ key[2] = k.meta.method
  /\ key[1] = METRIC_FAILED_REQUESTS => ~k.outcome.ok
  /\ key[3] # Absent => ExpectedTagged(k.meta) /\ key[3] = ExpectedLabel(k.meta.tag)
  /\ key[4] # Absent =>
       /\ key[1] = METRIC_FAILED_REQUESTS
       /\ ~k.outcome.ok
       /\ key[4] = ExpectedReason(k.outcome.err)

\* The number of calls expected to have counted under `key`.
ExpectedCount(key) ==
  BagCardinality([k \in {r \in Recs : Counts(r, key)} |-> calls[k]])

AllCompleted == \A k \in Recs : k.pc = "done"

\* C3: once all the concurrent calls have completed, under every
\* interleaving, each counter equals the number of calls that should have
\* incremented it: no increment is lost or duplicated.
C3_ExactCounts ==
  AllCompleted => \A key \in AllKeys : Value(key) = ExpectedCount(key)

\* Two calls counted under the same tag and reason specific counter.
C3_Witness ==
  /\ AllCompleted
  /\ \E key \in DOMAIN counters : key[3] # Absent /\ key[4] # Absent /\ counters[key] >= 2

\* C4: a failed call counts requests_failed_total(method) exactly once, the
\* counter of the one reason its error classifies as exactly once, and no
\* other reason specific counter; an unclassified error counts no reason.
C4_Classification ==
  \A k \in Recs : Failed(k) =>
    /\ Count(Key(METRIC_FAILED_REQUESTS, k.meta.method, Absent, Absent), k.incs) = 1
    /\ \A r \in Reasons :
         Count(Key(METRIC_FAILED_REQUESTS, k.meta.method, Absent, r), k.incs)
           = IF r = ExpectedReason(k.outcome.err) THEN 1 ELSE 0
    /\ \A i \in 1..Len(k.incs) :
         k.incs[i][4] # Absent => k.incs[i][4] = ExpectedReason(k.outcome.err)

\* One call failed with status 429 and another with status 500.
C4_Witness ==
  /\ \E k \in Recs : Failed(k) /\ is_status(k.outcome.err) /\ k.outcome.err.status = 429
  /\ \E k \in Recs : Failed(k) /\ is_status(k.outcome.err) /\ k.outcome.err.status = 500

\* C5: a successful call counts requests_total(method) exactly once, the
\* block tag variant exactly once when it has one, and no failed counter.
C5_SuccessPath ==
  \A k \in Recs : Succeeded(k) =>
    /\ Count(Key(METRIC_REQUESTS, k.meta.method, Absent, Absent), k.incs) = 1
    /\ ExpectedTagged(k.meta) =>
         Count(Key(METRIC_REQUESTS, k.meta.method, ExpectedLabel(k.meta.tag), Absent),
               k.incs) = 1
    /\ \A i \in 1..Len(k.incs) : k.incs[i][1] # METRIC_FAILED_REQUESTS

\* A successful get_state_update call on the pending block.
C5_Witness ==
  \E k \in Recs :
    Succeeded(k) /\ k.meta.method = "get_state_update" /\ k.meta.tag = "Pending"

\* C6: a failed call of a block method with tag Latest or Pending and a
\* classified reason counts all four failed counters once; a call with tag
\* None or of another method counts under no key that carries a tag.
C6_TagPropagation ==
  \A k \in Recs :
    /\ (Failed(k) /\ ExpectedTagged(k.meta) /\ ExpectedReason(k.outcome.err) # Absent) =>
         \A t \in {Absent, ExpectedLabel(k.meta.tag)} :
           \A r \in {Absent, ExpectedReason(k.outcome.err)} :
             Count(Key(METRIC_FAILED_REQUESTS, k.meta.method, t, r), k.incs) = 1
    /\ ~ExpectedTagged(k.meta) =>
         \A i \in 1..Len(k.incs) : k.incs[i][3] = Absent

\* A tagged failure with a reason, and a failure of a method without tag
\* variants that carried a tag.
C6_Witness ==
  /\ \E k \in Recs :
       /\ Failed(k) /\ k.meta.method = "get_state_update" /\ k.meta.tag = "Pending"
       /\ k.outcome.err.kind = "Decode"
  /\ \E k \in Recs : Failed(k) /\ k.meta.method = "call_contract" /\ k.meta.tag = "Latest"

\* C7: with_metrics returns exactly what the wrapped operation resolved to,
\* and the operation completes exactly once per call.
C7_PassThrough ==
  \A k \in Recs :
    /\ k.pc = "done" => k.result = k.outcome /\ k.opRuns = 1
    /\ k.pc # "done" => k.result = NoResult /\ k.opRuns <= 1

\* A call returned an unclassified error and another returned a value.
C7_Witness ==
  /\ \E k \in Recs : Failed(k) /\ k.outcome.err.kind = "Request" /\ k.result = k.outcome
  /\ \E k \in Recs : Succeeded(k) /\ k.result = Ok("v2")

\* The keys the registration is expected to cover.
ExpectedRegistered ==
  {Key(n, m, Absent, Absent) :
     n \in {METRIC_REQUESTS, METRIC_FAILED_REQUESTS}, m \in Range(METHODS)}
  \cup {Key(n, m, t, Absent) :
     n \in {METRIC_REQUESTS, METRIC_FAILED_REQUESTS}, m \in TaggedMethods, t \in TagLabels}
  \cup {Key(METRIC_FAILED_REQUESTS, m, Absent, r) : m \in Range(METHODS), r \in Reasons}
  \cup {Key(METRIC_FAILED_REQUESTS, m, t, r) :
     m \in TaggedMethods, t \in TagLabels, r \in Reasons}

\* C8: after one register() call the registered set contains every key of
\* the taxonomy: both series per method, their tag variants, and the failed
\* series per reason and per tag and reason.
C8_Exhaustive ==
  RegisterDone(1) => ExpectedRegistered \subseteq registered

\* register() has returned and no request has been made yet.
C8_Witness ==
  RegisterDone(1) /\ calls = EmptyBag /\ Cardinality(registered) = Len(RegisterCalls)

RECURSIVE SumValues(_, _, _, _)
SumValues(m, t, rs, n) ==
  IF n = 0 THEN 0
  ELSE Value(Key(METRIC_FAILED_REQUESTS, m, t, rs[n])) + SumValues(m, t, rs, n - 1)

\* C10: in every state, for every method and every (method, tag): the failed
\* counter is at most the total counter, and the reason counters sum to at
\* most the failed counter.
C10_Ordering ==
  \A m \in Range(METHODS) : \A t \in TagLabels \cup {Absent} :
    /\ Value(Key(METRIC_FAILED_REQUESTS, m, t, Absent))
         <= Value(Key(METRIC_REQUESTS, m, t, Absent))
    /\ SumValues(m, t, failure_reason, Len(failure_reason))
         <= Value(Key(METRIC_FAILED_REQUESTS, m, t, Absent))

\* Two tagged calls of one method, one failed with a reason, one in flight.
C10_Witness ==
  \E m \in TaggedMethods : \E t \in TagLabels :
    /\ Value(Key(METRIC_REQUESTS, m, t, Absent)) = 2
    /\ Value(Key(METRIC_FAILED_REQUESTS, m, t, Absent)) = 1
    /\ SumValues(m, t, failure_reason, Len(failure_reason)) = 1

====
